---- MODULE Spec2Model ----
(***************************************************************************)
(* The proctored interview page (Frontend/src/pages/Interview.tsx) as a    *)
(* state machine.  React state is the committed value of each useState     *)
(* cell; every asynchronous handler is a task that carries the values its  *)
(* closure captured (the render in which it was created) and resumes when  *)
(* its request is answered.  Setters called after the page was left are    *)
(* no-ops.                                                                 *)
(***************************************************************************)
EXTENDS Integers, Sequences, FiniteSets, Bags, TLC

\* ------------------------------------------------------------------ bounds
MaxQuestions == 2
MaxStrikes == 3
MaxAnswers == 2
MaxRecordings == 1
MaxReports == 1
\* the run of two overlapping recordings
RaceStrikes == 1
RaceAnswers == 1
RaceRecordings == 2
RaceReports == 1
\* the run with every operation of the page and with leaving the page
OpsStrikes == 1
OpsAnswers == 1
OpsRecordings == 1
OpsReports == 1
OpsRuns == 1
OpsMonitors == 1
\* the run with the read-aloud switch and the end of an utterance
CueStrikes == 1
CueAnswers == 2
CueRecordings == 1
CueReports == 1
\* the run from the upload of the resume to the interview page
FlowUploads == 1
FlowRequests == 2
FlowAnswers == 1
FlowReports == 1
FlowMonitors == 1

\* ------------------------------------------------------- program constants
WarnFirst == 1
WarnFinal == 2
TerminateAt == 3
\* the Judge0 language identifiers of langMap and the fallback of ??
PythonId == 71
CppId == 54
JavaId == 62
JavascriptId == 63
FallbackId == 71

VARIABLES
  sessionData,      \* the session record loaded from storage: [questions]
  page,             \* the route the router shows
  hidden,           \* document.hidden, as delivered to the page's listener
  tabSwitchCount,
  currentQuestion,
  answers,
  evaluations,
  isSubmitting,
  isRecording,
  mediaRecorder,    \* id of the recorder held in state, 0 for null
  audioStreamRef,   \* id of the stream held in the ref, 0 for null
  codeAnswer,
  judgeResult,      \* what the panel under the editor shows
  ttsEnabled,       \* the "Read questions aloud" switch
  speechQueue,      \* window.speechSynthesis: the utterances spoken or queued,
                    \* each the index of the question it reads
  recorders,        \* the MediaRecorder objects created so far
  micPending,       \* getUserMedia calls not yet settled
  tasks,            \* handlers suspended on a request
  InterviewResults, \* the localStorage item written by finishInterview
  reportRequests,   \* POST /api/generate-report sent so far
  navigations,      \* navigate("/InterviewResults") calls so far
  hideEvents,       \* visible -> hidden transitions delivered to the page
  toasts,           \* how often each proctoring notification was shown
  failureToast,     \* title of the latest destructive notification of a handler
  limits,           \* how many events of each kind the environment produces
  interview_session, \* the localStorage item written by the upload page
  loading,          \* the loading cell of the permissions page
  probe,            \* streams the permissions page acquired, and those it stopped
  monitoringWarned, \* console.warn of the permissions page was called
  fnInput,          \* arguments of a call of the page's pure functions
  fnOutput,         \* what the calls on fnInput returned
  fnSeen            \* the classification every text got when it was last classified

monitorVars == <<hidden, tabSwitchCount, hideEvents, toasts>>
flowVars == <<currentQuestion, answers, evaluations, isSubmitting, codeAnswer>>
codeVars == <<judgeResult>>
cueVars == <<ttsEnabled, speechQueue>>
fnVars == <<fnInput, fnOutput, fnSeen>>
permVars == <<interview_session, loading, probe, monitoringWarned>>
recVars == <<isRecording, mediaRecorder, audioStreamRef, recorders, micPending>>
outVars == <<InterviewResults, reportRequests, navigations>>

vars == <<sessionData, page, tasks, monitorVars, flowVars, codeVars, cueVars,
          recVars, outVars, failureToast, limits, fnVars, permVars>>

\* ---------------------------------------------------------------- questions
\* A question text is the sequence of its words.
QCoding == <<"implement", "a", "function", "in", "python">>
QVoice == <<"tell", "me", "about", "a", "time">>
QuestionTexts == {QCoding, QVoice}

\* the names of the source less c\\+\\+ and c#: \\b after + or # needs a word
\* character to follow, so neither matches a word of a text
langs == {"python", "cpp", "java", "javascript", "js", "ruby", "go", "golang"}
strongVerbs == {"implement", "write", "solve", "create", "build", "produce",
                "construct", "complete", "program", "code"}

\* the "i" flag of the regular expressions: a word matches whatever its case
Lower(w) ==
  CASE w = "Implement" -> "implement"
    [] w = "Python" -> "python"
    [] w = "Tell" -> "tell"
    [] w = "JavaScript" -> "javascript"
    [] w = "Build" -> "build"
    [] OTHER -> w

\* the classifier with the case of the text significant
isProgrammingQuestion_CaseSensitive(q) ==
  /\ q # <<>>
  /\ \E i \in DOMAIN q : q[i] \in langs \cup strongVerbs

\* if (!q) return false; then a \b-delimited language name or strong verb
isProgrammingQuestion(q) ==
  /\ q # <<>>
  /\ \E i \in DOMAIN q : Lower(q[i]) \in langs \cup strongVerbs

total == Len(sessionData.questions)

questionText ==
  IF currentQuestion + 1 \in DOMAIN sessionData.questions
    THEN sessionData.questions[currentQuestion + 1]
    ELSE <<>>

programQ == isProgrammingQuestion(questionText)

\* -------------------------------------------------------------- page helpers
InterviewRoute == "/interview"
UploadRoute == "/resume-upload"
PermissionsRoute == "/grant-permissions"
ResultsTarget == "/InterviewResults"

mounted == page = InterviewRoute

\* <Routes>: paths are matched without regard to case (caseSensitive is not
\* set on any route)
LowerPath(path) ==
  CASE path = "/InterviewResults" -> "/interviewresults"
    [] OTHER -> path

\* the element each registered path renders; path="*" renders NotFound
Element(path) ==
  CASE LowerPath(path) = "/" -> "Index"
    [] LowerPath(path) = "/login" -> "Login"
    [] LowerPath(path) = "/signup" -> "Signup"
    [] LowerPath(path) = "/forgot-password" -> "ForgotPassword"
    [] LowerPath(path) = "/reset-password" -> "ResetPassword"
    [] LowerPath(path) = "/dashboard" -> "Dashboard"
    [] LowerPath(path) = "/resume-upload" -> "ResumeUpload"
    [] LowerPath(path) = "/grant-permissions" -> "GrantPermissions"
    [] LowerPath(path) = "/interview" -> "Interview"
    [] LowerPath(path) = "/interview-results" -> "InterviewResults"
    [] LowerPath(path) = "/ats-checker" -> "ATSChecker"
    [] OTHER -> "NotFound"

\* navigate("/InterviewResults") passes no state: location.state is null and
\* const { sessionId } = location.state || {} leaves sessionId undefined
NoLocationState == [sessionId |-> FALSE]

\* the mount effect of the results page: if (!sessionId) navigate("/")
ResultsEffect(path, state) ==
  IF Element(path) = "InterviewResults" /\ ~state.sessionId THEN "/" ELSE path

\* useState initialiser of sessionData: null when no record is read
NullSession == [questions |-> <<>>, null |-> TRUE]

\* the test every handler starts with, as if it always passed
hasSession_Unchecked == TRUE

\* if (!sessionData) return
hasSession == sessionData # NullSession

\* a state setter: no effect once the component is unmounted
SetState(old, new) == IF mounted THEN new ELSE old

NoBundle == [written |-> FALSE, questions |-> <<>>, answers |-> <<>>,
             evaluations |-> <<>>, report_url |-> FALSE]

NoToasts == [warning1 |-> 0, warning2 |-> 0, terminated |-> 0]

\* titles of the destructive notifications the handlers raise on a failure
NoFailure == "none"
RecordingFailed == "Recording failed"
SubmissionFailed == "Submission failed"
SubmitFailed == "Submit failed"
SkipFailed == "Skip failed"
ReportFailed == "Report generation failed"
MonitoringFailed == "Monitoring failed"
UploadFailed == "Upload Failed"
PermissionsRequired == "Permissions required"
NoSessionFound == "No session found"
NoInterviewSession == "No interview session"

\* the suspended handlers form a multiset: their order carries no meaning
Put(b, t) == b (+) SetToBag({t})
Take(b, t) == b (-) SetToBag({t})

\* no session record is stored
NoSession ==
  [exists |-> FALSE, questions |-> <<>>, mic |-> FALSE, camera |-> FALSE,
   permissions_granted |-> FALSE]

\* the record created with its flags already set
NewSession_FlagsSet(qs) ==
  [exists |-> TRUE, questions |-> qs, mic |-> TRUE, camera |-> TRUE,
   permissions_granted |-> TRUE]

\* sessionObj: permissions: { mic: false, camera: false },
\* permissions_granted: false
NewSession(qs) ==
  [exists |-> TRUE, questions |-> qs, mic |-> FALSE, camera |-> FALSE,
   permissions_granted |-> FALSE]

\* session.permissions = { mic: true, camera: true };
\* session.permissions_granted = true
Granted(session) ==
  [session EXCEPT !.mic = TRUE, !.camera = TRUE, !.permissions_granted = TRUE]

\* a stored item that JSON.parse rejects
Unparsable ==
  [exists |-> TRUE, questions |-> <<>>, mic |-> FALSE, camera |-> FALSE,
   permissions_granted |-> FALSE, unparsable |-> TRUE]

\* raw ? JSON.parse(raw) : null, and null when parsing throws
Load(item) ==
  IF ~item.exists \/ item = Unparsable
    THEN NullSession
    ELSE [questions |-> item.questions]

NoProbe == [acquired |-> 0, stopped |-> 0]

\* the state cells of the interview page as useState initializes them, and
\* what the page has produced: nothing
FreshCells ==
  /\ hidden = FALSE
  /\ tabSwitchCount = 0
  /\ currentQuestion = 0
  /\ answers = <<>>
  /\ evaluations = <<>>
  /\ isSubmitting = FALSE
  /\ isRecording = FALSE
  /\ mediaRecorder = 0
  /\ audioStreamRef = 0
  /\ codeAnswer = ""
  /\ judgeResult = ""
  /\ ttsEnabled = TRUE
  /\ recorders = <<>>
  /\ micPending = EmptyBag
  /\ tasks = EmptyBag
  /\ InterviewResults = NoBundle
  /\ reportRequests = 0
  /\ navigations = 0
  /\ hideEvents = 0
  /\ toasts = NoToasts
  /\ failureToast = NoFailure

\* the state of a freshly mounted page, reached through the upload and the
\* permissions pages
Mount ==
  /\ \E n \in 0..MaxQuestions :
       \E qs \in [1..n -> QuestionTexts] : sessionData = [questions |-> qs]
  /\ page = InterviewRoute
  /\ FreshCells
  /\ speechQueue = IF sessionData.questions # <<>> THEN <<0>> ELSE <<>>
  /\ interview_session = Granted(NewSession(sessionData.questions))
  /\ loading = FALSE
  /\ probe = [acquired |-> 1, stopped |-> 1]
  /\ monitoringWarned = FALSE

\* the page opened at its address with no record to load, or with one that
\* cannot be parsed
MountWithoutSession ==
  /\ sessionData = NullSession
  /\ page = InterviewRoute
  /\ FreshCells
  /\ speechQueue = <<>>
  /\ interview_session \in {NoSession, Unparsable}
  /\ loading = FALSE
  /\ probe = NoProbe
  /\ monitoringWarned = FALSE

\* ------------------------------------------------------- the pure functions
\* the lookup with java as the fallback
LanguageId_JavaFallback(language) ==
  CASE language = "python" -> PythonId
    [] language = "cpp" -> CppId
    [] language = "java" -> JavaId
    [] language = "javascript" -> JavascriptId
    [] OTHER -> JavaId

\* const langMap = { python: 71, cpp: 54, java: 62, javascript: 63 };
\* langMap[language] ?? 71
LanguageId(language) ==
  CASE language = "python" -> PythonId
    [] language = "cpp" -> CppId
    [] language = "java" -> JavaId
    [] language = "javascript" -> JavascriptId
    [] OTHER -> FallbackId

\* q.toLowerCase().includes(name) for the names the effect looks for: the
\* names that occur in a word as substrings
Includes(w) ==
  CASE Lower(w) = "python" -> {"python"}
    [] Lower(w) = "cpp" -> {"cpp"}
    [] Lower(w) = "c++" -> {"c++"}
    [] Lower(w) = "java" -> {"java"}
    [] Lower(w) = "javascript" -> {"java", "javascript"}
    [] Lower(w) = "js" -> {"js"}
    [] OTHER -> {}

\* the names that occur in a text
Mentions(q) == UNION {Includes(q[i]) : i \in DOMAIN q}

\* the chain of lines 121-125: python, then c++ or cpp, then java, then
\* javascript or js, else python
DetectLanguage(q) ==
  IF "python" \in Mentions(q) THEN "python"
  ELSE IF "c++" \in Mentions(q) \/ "cpp" \in Mentions(q) THEN "cpp"
  ELSE IF "java" \in Mentions(q) THEN "java"
  ELSE IF "javascript" \in Mentions(q) \/ "js" \in Mentions(q) THEN "javascript"
  ELSE "python"

\* the names the select offers, and names it does not offer
Selectable == {"python", "cpp", "java", "javascript"}
LanguageNames == Selectable \cup {"ruby", "c++", "Python", ""}

ExampleCoding == <<"Implement", "a", "function", "in", "Python", "that",
                   "reverses", "a", "string">>
ExampleFree == <<"Tell", "me", "about", "a", "time", "you", "led", "a", "team">>
ProbeTexts == {ExampleCoding, ExampleFree, QCoding, QVoice, <<>>,
               <<"what", "is", "your", "favourite", "JavaScript", "framework">>,
               <<"write", "a", "queue", "in", "c++">>,
               <<"write", "a", "server", "in", "node", "js">>,
               <<"write", "a", "parser", "in", "java">>}

\* the branch of the render: the editor or the recorder
Modality(q) == IF isProgrammingQuestion(q) THEN "coding" ELSE "free-response"

Unclassified == "none"

NoInput == [language |-> "", text |-> <<>>]
NoOutput == [language_id |-> 0, modality |-> Unclassified, language |-> ""]

NoCall ==
  /\ fnInput = NoInput
  /\ fnOutput = NoOutput
  /\ fnSeen = [q \in ProbeTexts |-> Unclassified]

\* the functions are called on arguments drawn from the sets above, outside
\* any session
InitFn ==
  /\ Mount
  /\ sessionData.questions = <<>>
  /\ limits = [strikes |-> 0, answers |-> 0, recordings |-> 0, reports |-> 0,
                runs |-> 0, monitors |-> 0, requests |-> 0, uploads |-> 0]
  /\ fnInput \in [language : LanguageNames, text : ProbeTexts]
  /\ fnOutput = NoOutput
  /\ fnSeen = [q \in ProbeTexts |-> Unclassified]

\* the call langMap[language] ?? 71
callLanguageId ==
  /\ fnOutput.language_id = 0
  /\ fnOutput' = [fnOutput EXCEPT !.language_id = LanguageId(fnInput.language)]
  /\ UNCHANGED <<fnInput, fnSeen, limits, permVars, cueVars, codeVars, failureToast,
                 sessionData, page, tasks, monitorVars, flowVars, recVars, outVars>>

\* the call isProgrammingQuestion(text)
callIsProgrammingQuestion ==
  /\ fnOutput.modality = Unclassified
  /\ fnOutput' = [fnOutput EXCEPT !.modality = Modality(fnInput.text)]
  /\ fnSeen' = [fnSeen EXCEPT ![fnInput.text] = Modality(fnInput.text)]
  /\ UNCHANGED <<fnInput, limits, permVars, cueVars, codeVars, failureToast,
                 sessionData, page, tasks, monitorVars, flowVars, recVars, outVars>>

\* the language detection of the effect, for a question text
callDetectLanguage ==
  /\ fnInput.text # <<>>
  /\ fnOutput.language = ""
  /\ fnOutput' = [fnOutput EXCEPT !.language = DetectLanguage(fnInput.text)]
  /\ UNCHANGED <<fnInput, fnSeen, limits, permVars, cueVars, codeVars, failureToast,
                 sessionData, page, tasks, monitorVars, flowVars, recVars, outVars>>

\* the functions are called again, on other arguments or on the same
nextCall ==
  /\ fnOutput.language_id # 0
  /\ fnOutput.modality # Unclassified
  /\ fnOutput.language # "" \/ fnInput.text = <<>>
  /\ fnInput' \in [language : LanguageNames, text : ProbeTexts]
  /\ fnOutput' = NoOutput
  /\ UNCHANGED <<fnSeen, limits, permVars, cueVars, codeVars, failureToast,
                 sessionData, page, tasks, monitorVars, flowVars, recVars, outVars>>

\* the candidate is on the upload page and nothing is stored
InitFlow ==
  /\ sessionData = [questions |-> <<>>]
  /\ page = UploadRoute
  /\ FreshCells
  /\ speechQueue = <<>>
  /\ interview_session = NoSession
  /\ loading = FALSE
  /\ probe = NoProbe
  /\ monitoringWarned = FALSE
  /\ NoCall
  /\ limits = [strikes |-> 0, answers |-> FlowAnswers, recordings |-> 0,
                reports |-> FlowReports, runs |-> 0, monitors |-> FlowMonitors,
                requests |-> FlowRequests, uploads |-> FlowUploads]

Init ==
  /\ Mount
  /\ NoCall
  /\ limits = [strikes |-> MaxStrikes, answers |-> MaxAnswers,
                recordings |-> MaxRecordings, reports |-> MaxReports,
                runs |-> 0, monitors |-> 0, requests |-> 0, uploads |-> 0]

InitRace ==
  /\ Mount
  /\ NoCall
  /\ limits = [strikes |-> RaceStrikes, answers |-> RaceAnswers,
                recordings |-> RaceRecordings, reports |-> RaceReports,
                runs |-> 0, monitors |-> 0, requests |-> 0, uploads |-> 0]

InitCue ==
  /\ Mount
  /\ NoCall
  /\ limits = [strikes |-> CueStrikes, answers |-> CueAnswers,
                recordings |-> CueRecordings, reports |-> CueReports,
                runs |-> 0, monitors |-> 0, requests |-> 0, uploads |-> 0]

InitOps ==
  /\ Mount
  /\ NoCall
  /\ limits = [strikes |-> OpsStrikes, answers |-> OpsAnswers,
                recordings |-> OpsRecordings, reports |-> OpsReports,
                runs |-> OpsRuns, monitors |-> OpsMonitors, requests |-> 0,
                uploads |-> 0]

InitNull ==
  /\ Mount \/ MountWithoutSession
  /\ NoCall
  /\ limits = [strikes |-> OpsStrikes, answers |-> OpsAnswers,
                recordings |-> OpsRecordings, reports |-> OpsReports,
                runs |-> OpsRuns, monitors |-> OpsMonitors, requests |-> 0,
                uploads |-> 0]

\* ------------------------------------------------------------ finishInterview
\* finishInterview up to its fetch, called from a closure that captured the
\* answers ans and the evaluations evs: the report request is sent and the
\* caller (type, with recorder rec when it is recorder.onstop) waits for it.
FinishTask(type, k, ans, evs, rec) ==
  [type |-> type, k |-> k, ans |-> ans, evs |-> evs, rec |-> rec,
   pc |-> "report"]

\* ------------------------------------------------------ handleVisibilityChange
\* the count as it would be without the document.hidden test
StrikeCount_EveryChange(isHidden, prev) == prev + 1

\* if (document.hidden) setTabSwitchCount((prev) => prev + 1)
StrikeCount(isHidden, prev) == IF isHidden THEN prev + 1 ELSE prev

FirstWarning(next) == next = WarnFirst
FinalWarning(next) == next = WarnFinal
\* termination one strike early
Terminates_Early(next) == next >= WarnFinal

Terminates(next) == next >= TerminateAt

\* the handler calling finishInterview on every strike
handleVisibilityChange_FinishesOnAnyStrike ==
  /\ mounted
  /\ hidden \/ hideEvents < limits.strikes
  /\ hidden' = ~hidden
  /\ hideEvents' = IF ~hidden /\ hidden' THEN hideEvents + 1 ELSE hideEvents
  /\ LET next == StrikeCount(hidden', tabSwitchCount)
         fire(cond) == IF hidden' /\ cond THEN 1 ELSE 0
     IN
     /\ tabSwitchCount' = next
     /\ toasts' = [warning1 |-> toasts.warning1 + fire(FirstWarning(next)),
                   warning2 |-> toasts.warning2 + fire(FinalWarning(next)),
                   terminated |-> toasts.terminated + fire(Terminates(next))]
     /\ IF hidden'
          THEN /\ tasks' = Put(tasks, FinishTask("finish", currentQuestion,
                                                 answers, evaluations, 0))
               /\ reportRequests' = reportRequests + 1
          ELSE UNCHANGED <<tasks, reportRequests>>
  /\ UNCHANGED <<limits, permVars, fnVars, cueVars, codeVars, failureToast, sessionData, page, flowVars, recVars, InterviewResults,
                 navigations>>

handleVisibilityChange ==
  /\ mounted
  /\ hidden \/ hideEvents < limits.strikes
  /\ hidden' = ~hidden
  /\ hideEvents' = IF ~hidden /\ hidden' THEN hideEvents + 1 ELSE hideEvents
  /\ LET next == StrikeCount(hidden', tabSwitchCount)
         fire(cond) == IF hidden' /\ cond THEN 1 ELSE 0
     IN
     /\ tabSwitchCount' = next
     /\ toasts' = [warning1 |-> toasts.warning1 + fire(FirstWarning(next)),
                   warning2 |-> toasts.warning2 + fire(FinalWarning(next)),
                   terminated |-> toasts.terminated + fire(Terminates(next))]
     /\ IF hidden' /\ Terminates(next) /\ hasSession
          THEN /\ tasks' = Put(tasks, FinishTask("finish", currentQuestion,
                                                 answers, evaluations, 0))
               /\ reportRequests' = reportRequests + 1
          ELSE UNCHANGED <<tasks, reportRequests>>
  /\ UNCHANGED <<limits, permVars, fnVars, cueVars, codeVars, failureToast, sessionData, page, flowVars, recVars, InterviewResults,
                 navigations>>

\* ------------------------------------------------------------- question cue
\* The effect keyed on currentQuestion: when the index changes and a question
\* exists at the new index, the code draft is reset.
CueEffect(newIndex, draft) ==
  IF newIndex # currentQuestion /\ newIndex + 1 \in DOMAIN sessionData.questions
    THEN ""
    ELSE draft

\* what the effect does to the speech queue when it runs for the question at
\* index with the switch at enabled: nothing without a question at that
\* index; otherwise speechSynthesis.cancel() and, with read-aloud enabled,
\* speak() of the question
Cue(index, enabled) ==
  IF index + 1 \in DOMAIN sessionData.questions
    THEN IF enabled THEN <<index>> ELSE <<>>
    ELSE speechQueue

\* the "Read questions aloud" checkbox: the effect depends on ttsEnabled and
\* runs again for the current question
setTtsEnabled ==
  /\ mounted
  /\ ttsEnabled' = ~ttsEnabled
  /\ speechQueue' = Cue(currentQuestion, ~ttsEnabled)
  /\ IF currentQuestion + 1 \in DOMAIN sessionData.questions
       THEN codeAnswer' = "" /\ judgeResult' = ""
       ELSE UNCHANGED <<codeAnswer, judgeResult>>
  /\ UNCHANGED <<limits, permVars, fnVars, failureToast, sessionData, page, tasks, monitorVars,
                 currentQuestion, answers, evaluations, isSubmitting, recVars,
                 outVars>>

\* the browser finishes speaking an utterance
utteranceEnds ==
  /\ speechQueue # <<>>
  /\ speechQueue' = Tail(speechQueue)
  /\ UNCHANGED <<limits, permVars, fnVars, ttsEnabled, codeVars, failureToast, sessionData, page,
                 tasks, monitorVars, flowVars, recVars, outVars>>

\* ------------------------------------------------------------------ editor
Drafts == {"", "code"}

setCodeAnswer ==
  /\ mounted
  /\ programQ
  /\ \E v \in Drafts \ {codeAnswer} : codeAnswer' = v
  /\ UNCHANGED <<limits, permVars, fnVars, cueVars, codeVars, failureToast, sessionData, page, tasks, monitorVars, currentQuestion,
                 answers, evaluations, isSubmitting, recVars, outVars>>

\* ------------------------------------------------------- submission handlers
SubmitTask(type, k, ans, evs, rec) ==
  [type |-> type, k |-> k, ans |-> ans, evs |-> evs, rec |-> rec,
   pc |-> "submit"]

\* requests to /api/submit-answer not yet answered
SubmitsInFlight ==
  BagCardinality([t \in {u \in BagToSet(tasks) : u.pc = "submit"} |-> tasks[t]])

\* A submit handler up to its fetch: the flag is raised and the request
\* carries the index the closure captured.
BeginSubmit(type) ==
  /\ Len(answers) + SubmitsInFlight < limits.answers
  /\ isSubmitting' = TRUE
  /\ tasks' = Put(tasks, SubmitTask(type, currentQuestion, answers,
                                    evaluations, 0))
  /\ UNCHANGED <<limits, permVars, fnVars, cueVars, codeVars, failureToast, sessionData, page, monitorVars, currentQuestion, answers,
                 evaluations, codeAnswer, recVars, outVars>>

submitCodeAnswer ==
  /\ mounted
  /\ hasSession
  /\ programQ
  /\ codeAnswer # ""
  /\ ~isSubmitting
  /\ BeginSubmit("code")

\* submitTextAnswer is wired to no control of the page: Next leaves it out and
\* NextText takes it under the guard every other submit control carries.
submitTextAnswer ==
  /\ mounted
  /\ hasSession
  /\ ~isSubmitting
  /\ BeginSubmit("text")

skipQuestion ==
  /\ mounted
  /\ hasSession
  /\ ~isSubmitting
  /\ BeginSubmit("skip")

\* ------------------------------------------------------------ Finish button
finishInterview ==
  /\ mounted
  /\ hasSession
  /\ ~programQ
  /\ ~isRecording
  /\ ~isSubmitting
  /\ reportRequests < limits.reports
  /\ tasks' = Put(tasks, FinishTask("finish", currentQuestion, answers,
                                    evaluations, 0))
  /\ reportRequests' = reportRequests + 1
  /\ UNCHANGED <<limits, permVars, fnVars, cueVars, codeVars, failureToast, sessionData, page, monitorVars, flowVars, recVars,
                 InterviewResults, navigations>>

\* --------------------------------------------------------------- recording
startRecording ==
  /\ mounted
  /\ hasSession
  /\ ~programQ
  /\ ~isRecording
  /\ ~isSubmitting
  /\ Len(recorders) + BagCardinality(micPending) < limits.recordings
  /\ speechQueue' = <<>>
  /\ micPending' = Put(micPending, [k |-> currentQuestion, ans |-> answers,
                                    evs |-> evaluations])
  /\ UNCHANGED <<limits, permVars, fnVars, ttsEnabled, codeVars, failureToast, sessionData, page, tasks, monitorVars, flowVars, isRecording,
                 mediaRecorder, audioStreamRef, recorders, outVars>>

\* the record of a recorder whose tracks were left running
Released_TracksRunning(artifact) ==
  [state |-> "inactive", live |-> TRUE, artifact |-> artifact, k |-> 0,
   ans |-> <<>>, evs |-> <<>>]

\* a recorder whose stop event was handled and whose stream was released: no
\* reference to it or to its closure remains (artifact: a blob was built
\* from its chunks and handed to submitAudio)
Released(artifact) ==
  [state |-> "inactive", live |-> FALSE, artifact |-> artifact, k |-> 0,
   ans |-> <<>>, evs |-> <<>>]

\* getUserMedia resolves: the stream is kept in the ref, a recorder is
\* created on it and started, and the recorder is put in state.
getUserMediaGranted(c) ==
  /\ BagIn(c, micPending)
  /\ LET id == Len(recorders) + 1 IN
     /\ recorders' = Append(recorders, [state |-> "recording", live |-> TRUE,
                                        artifact |-> FALSE, k |-> c.k, ans |-> c.ans,
                                        evs |-> c.evs])
     /\ audioStreamRef' = id
     /\ mediaRecorder' = SetState(mediaRecorder, id)
     /\ isRecording' = SetState(isRecording, TRUE)
  /\ micPending' = Take(micPending, c)
  /\ UNCHANGED <<limits, permVars, fnVars, cueVars, codeVars, failureToast, sessionData, page, tasks, monitorVars, flowVars, outVars>>

\* getUserMedia resolves and the stream is kept in the ref, but the
\* MediaRecorder constructor or recorder.start() throws: the catch clause
\* raises the notification; no handler of the recorder will ever run.
getUserMediaGrantedRecorderThrows(c) ==
  /\ BagIn(c, micPending)
  /\ recorders' = Append(recorders, [state |-> "failed", live |-> TRUE,
                                     artifact |-> FALSE, k |-> 0, ans |-> <<>>,
                                     evs |-> <<>>])
  /\ audioStreamRef' = Len(recorders) + 1
  /\ micPending' = Take(micPending, c)
  /\ failureToast' = RecordingFailed
  /\ UNCHANGED <<limits, permVars, fnVars, cueVars, codeVars, sessionData, page, tasks, monitorVars, flowVars,
                 isRecording, mediaRecorder, outVars>>

\* the rejection handled as if setIsRecording(true) preceded the await
getUserMediaDenied_FlagRaised(c) ==
  /\ BagIn(c, micPending)
  /\ micPending' = Take(micPending, c)
  /\ failureToast' = RecordingFailed
  /\ isRecording' = SetState(isRecording, TRUE)
  /\ UNCHANGED <<limits, permVars, fnVars, cueVars, codeVars, sessionData, page, tasks, monitorVars, flowVars,
                 mediaRecorder, audioStreamRef, recorders, outVars>>

\* getUserMedia rejects: only a notification.
getUserMediaDenied(c) ==
  /\ BagIn(c, micPending)
  /\ micPending' = Take(micPending, c)
  /\ failureToast' = RecordingFailed
  /\ UNCHANGED <<limits, permVars, fnVars, cueVars, codeVars, sessionData, page, tasks, monitorVars, flowVars, isRecording,
                 mediaRecorder, audioStreamRef, recorders, outVars>>

\* stopRecording: recorder.stop() only queues the flush; the dataavailable and
\* stop events are delivered by a later task.
stopRecording ==
  /\ mounted
  /\ ~programQ
  /\ isRecording
  /\ ~isSubmitting
  /\ mediaRecorder # 0
  /\ recorders[mediaRecorder].state = "recording"
  /\ recorders' = [recorders EXCEPT ![mediaRecorder].state = "stopping"]
  /\ isRecording' = FALSE
  /\ UNCHANGED <<limits, permVars, fnVars, cueVars, codeVars, failureToast, sessionData, page, tasks, monitorVars, flowVars,
                 mediaRecorder, audioStreamRef, micPending, outVars>>

\* sizes of the blob the flush of stop() delivers
BlobSizes == {0, 1}

\* a chunk is kept whatever its size
ChunkKept_AnySize(size) == TRUE

\* if (ev.data && ev.data.size > 0) localChunks.push(ev.data)
ChunkKept(size) == size > 0

\* The flush of stop(): recorder.ondataavailable with a blob of the given size
\* and then recorder.onstop.  With chunks, submitAudio runs up to its fetch and
\* the release of the stream waits for it; without chunks the stream is
\* released at once.
onstop(r, size) ==
  /\ r \in DOMAIN recorders
  /\ recorders[r].state = "stopping"
  /\ IF ChunkKept(size) /\ hasSession
       THEN /\ recorders' = [recorders EXCEPT ![r].state = "inactive",
                                              ![r].artifact = TRUE]
            /\ isSubmitting' = SetState(isSubmitting, TRUE)
            /\ tasks' = Put(tasks, SubmitTask("voice", recorders[r].k,
                                   recorders[r].ans, recorders[r].evs, r))
            /\ UNCHANGED <<audioStreamRef, mediaRecorder>>
       ELSE /\ recorders' = [recorders EXCEPT ![r] = Released(ChunkKept(size))]
            /\ audioStreamRef' = 0
            /\ mediaRecorder' = SetState(mediaRecorder, 0)
            /\ UNCHANGED <<isSubmitting, tasks>>
  /\ UNCHANGED <<limits, permVars, fnVars, cueVars, codeVars, failureToast, sessionData, page, monitorVars, currentQuestion, answers,
                 evaluations, codeAnswer, isRecording, micPending, outVars>>

\* ---------------------------------------------------- /api/submit-answer reply
SubmitResponses == {"ok_eval", "ok_noeval", "non2xx", "unparsable", "network"}
SubmitTypes == {"voice", "code", "text", "skip"}

\* what is appended to answers: the literal "SKIPPED" or the candidate's text
\* (transcript, code or typed text)
Content(type) == IF type = "skip" THEN "SKIPPED" ELSE "text"

\* the test without its data.evaluation conjunct
Evaluated_AnyOk(resp) == resp \in {"ok_eval", "ok_noeval"}

\* res.ok && data && data.evaluation
Evaluated(resp) == resp = "ok_eval"

\* the local fallback taken by every handler
SkipFallback_AnyType(type, resp) == resp \in {"ok_noeval", "non2xx"}

\* the else branch of skipQuestion: the body parsed but the test above failed
SkipFallback(type, resp) == type = "skip" /\ resp \in {"ok_noeval", "non2xx"}

\* the catch clause as if the parsing of the body were outside the try block
Caught_ParseUnguarded(type, resp) ==
  ~(Evaluated(resp) \/ SkipFallback(type, resp)) /\ resp # "unparsable"

\* the reply takes the handler to its catch clause
Caught(type, resp) == ~(Evaluated(resp) \/ SkipFallback(type, resp))

\* the title of the notification the catch clause of each handler raises
FailureTitle(type) ==
  CASE type = "voice" -> SubmissionFailed
    [] type = "skip" -> SkipFailed
    [] OTHER -> SubmitFailed

\* the comparison without its - 1
MoreQuestions_OffByOne(k) == k < total

\* currentQuestion < (sessionData.questions?.length || 0) - 1, on the closure
MoreQuestions(k) == k < total - 1

SubmitResponse(t, resp) ==
  /\ BagIn(t, tasks)
  /\ t.pc = "submit"
  /\ LET appended == Evaluated(resp) \/ SkipFallback(t.type, resp)
         advance == appended /\ MoreQuestions(t.k)
         finalize == appended /\ ~MoreQuestions(t.k)
         audioDone == ~finalize /\ t.rec # 0
         newIndex == IF advance THEN SetState(currentQuestion, currentQuestion + 1)
                                ELSE currentQuestion
     IN
     /\ answers' = IF appended
                     THEN SetState(answers, Append(answers,
                                     [q |-> t.k, content |-> Content(t.type)]))
                     ELSE answers
     /\ evaluations' = IF appended
                         THEN SetState(evaluations, Append(evaluations,
                                [q |-> t.k,
                                 score |-> IF Evaluated(resp) THEN "backend" ELSE "zero"]))
                         ELSE evaluations
     /\ currentQuestion' = newIndex
     /\ codeAnswer' = CueEffect(newIndex, codeAnswer)
     /\ judgeResult' = CueEffect(newIndex, judgeResult)
     /\ speechQueue' = IF newIndex # currentQuestion
                         THEN Cue(newIndex, ttsEnabled)
                         ELSE speechQueue
     /\ failureToast' = IF Caught(t.type, resp) THEN FailureTitle(t.type)
                                                ELSE failureToast
     /\ tasks' = IF finalize THEN Put(Take(tasks, t), [t EXCEPT !.pc = "report"])
                             ELSE Take(tasks, t)
     /\ reportRequests' = IF finalize THEN reportRequests + 1 ELSE reportRequests
     /\ isSubmitting' = IF finalize THEN isSubmitting
                                    ELSE SetState(isSubmitting, FALSE)
     /\ recorders' = IF audioDone THEN [recorders EXCEPT ![t.rec] = Released(TRUE)]
                                  ELSE recorders
     /\ audioStreamRef' = IF audioDone THEN 0 ELSE audioStreamRef
     /\ mediaRecorder' = IF audioDone THEN SetState(mediaRecorder, 0)
                                      ELSE mediaRecorder
  /\ UNCHANGED <<limits, permVars, fnVars, ttsEnabled, sessionData, page, monitorVars, isRecording,
                 micPending, InterviewResults, navigations>>

\* -------------------------------------------------- /api/generate-report reply
ReportResponses == {"ok", "fail"}

\* what finishInterview stores: the answers and evaluations of its closure
Bundle(ans, evs) ==
  [written |-> TRUE, questions |-> sessionData.questions, answers |-> ans,
   evaluations |-> evs, report_url |-> TRUE]

\* The rest of finishInterview and of its caller.  On success the bundle is
\* stored and navigate() replaces the page: the component is unmounted and
\* its state cells are discarded (they read as a fresh mount would).
ReportResponse(t, resp) ==
  /\ BagIn(t, tasks)
  /\ t.pc = "report"
  /\ tasks' = Take(tasks, t)
  /\ recorders' = IF t.rec # 0 THEN [recorders EXCEPT ![t.rec] = Released(TRUE)]
                               ELSE recorders
  /\ audioStreamRef' = IF t.rec # 0 THEN 0 ELSE audioStreamRef
  /\ IF resp = "ok"
       THEN /\ InterviewResults' = Bundle(t.ans, t.evs)
            /\ page' = ResultsTarget
            /\ navigations' = navigations + 1
            /\ hidden' = FALSE
            /\ tabSwitchCount' = 0
            /\ hideEvents' = 0
            /\ toasts' = NoToasts
            /\ currentQuestion' = 0
            /\ answers' = <<>>
            /\ evaluations' = <<>>
            /\ isSubmitting' = FALSE
            /\ codeAnswer' = ""
            /\ judgeResult' = ""
            /\ ttsEnabled' = TRUE
            /\ isRecording' = FALSE
            /\ mediaRecorder' = 0
            /\ UNCHANGED failureToast
       ELSE /\ failureToast' = ReportFailed
            /\ isSubmitting' = IF t.type \in SubmitTypes
                                 THEN SetState(isSubmitting, FALSE)
                                 ELSE isSubmitting
            /\ mediaRecorder' = IF t.rec # 0 THEN SetState(mediaRecorder, 0)
                                             ELSE mediaRecorder
            /\ UNCHANGED <<InterviewResults, page, navigations, monitorVars,
                           currentQuestion, answers, evaluations, codeAnswer,
                           judgeResult, ttsEnabled, isRecording>>
  /\ UNCHANGED <<limits, permVars, fnVars, speechQueue, sessionData, micPending, reportRequests>>

\* ------------------------------------------------------ runCode (Judge0)
\* a handler that waits for a collaborator other than /api/submit-answer
OpTask(type) ==
  [type |-> type, k |-> 0, ans |-> <<>>, evs |-> <<>>, rec |-> 0, pc |-> type]

InFlight(pc) ==
  BagCardinality([t \in {u \in BagToSet(tasks) : u.pc = pc} |-> tasks[t]])

\* the reply of Judge0: the request was rejected (transport error, non-2xx),
\* or it was answered with a body whose stderr, compile_output and stdout
\* fields are each populated or empty
Rejected ==
  [ok |-> FALSE, stderr |-> FALSE, compile_output |-> FALSE, stdout |-> FALSE]

JudgeReplies ==
  {Rejected} \cup
  {[ok |-> TRUE, stderr |-> e, compile_output |-> c, stdout |-> o] :
     e \in BOOLEAN, c \in BOOLEAN, o \in BOOLEAN}

\* the chain with the test of compile_output first
JudgePanel_CompileFirst(reply) ==
  IF ~reply.ok THEN "Judge0 error"
  ELSE IF reply.compile_output THEN "Compile Error"
  ELSE IF reply.stderr THEN "Error"
  ELSE IF reply.stdout THEN "Output"
  ELSE "No output"

\* what runCode puts in the panel: if (out.stderr) ... else if
\* (out.compile_output) ... else out.stdout || "No output"; a rejected
\* request lands in the catch clause
JudgePanel(reply) ==
  IF ~reply.ok THEN "Judge0 error"
  ELSE IF reply.stderr THEN "Error"
  ELSE IF reply.compile_output THEN "Compile Error"
  ELSE IF reply.stdout THEN "Output"
  ELSE "No output"

runCode ==
  /\ mounted
  /\ hasSession
  /\ programQ
  /\ codeAnswer # ""
  /\ InFlight("run") < limits.runs
  /\ judgeResult' = "Running..."
  /\ tasks' = Put(tasks, OpTask("run"))
  /\ UNCHANGED <<limits, permVars, fnVars, cueVars, failureToast, sessionData, page, monitorVars, flowVars,
                 recVars, outVars>>

\* the handler as if its catch clause sent the request again
RunResponse_Retries(t, reply) ==
  /\ BagIn(t, tasks)
  /\ t.pc = "run"
  /\ tasks' = IF reply.ok THEN Take(tasks, t) ELSE tasks
  /\ judgeResult' = SetState(judgeResult, JudgePanel(reply))
  /\ UNCHANGED <<limits, permVars, fnVars, cueVars, failureToast, sessionData, page, monitorVars, flowVars,
                 recVars, outVars>>

RunResponse(t, reply) ==
  /\ BagIn(t, tasks)
  /\ t.pc = "run"
  /\ tasks' = Take(tasks, t)
  /\ judgeResult' = SetState(judgeResult, JudgePanel(reply))
  /\ UNCHANGED <<limits, permVars, fnVars, cueVars, failureToast, sessionData, page, monitorVars, flowVars,
                 recVars, outVars>>

\* ------------------------------------------------------------ startMonitoring
startMonitoring ==
  /\ mounted
  /\ hasSession
  /\ ~programQ
  /\ ~isRecording
  /\ ~isSubmitting
  /\ InFlight("monitor") < limits.monitors
  /\ tasks' = Put(tasks, OpTask("monitor"))
  /\ UNCHANGED <<limits, permVars, fnVars, cueVars, codeVars, failureToast, sessionData, page, monitorVars,
                 flowVars, recVars, outVars>>

\* safeFetch resolves or throws; the catch clause raises the notification
MonitorResponse(t, resp) ==
  /\ BagIn(t, tasks)
  /\ t.pc = "monitor"
  /\ tasks' = Take(tasks, t)
  /\ failureToast' = IF resp = "ok" THEN failureToast ELSE MonitoringFailed
  /\ UNCHANGED <<limits, permVars, fnVars, cueVars, codeVars, sessionData, page, monitorVars, flowVars,
                 recVars, outVars>>

\* ------------------------------------------------------------- Home button
DashboardRoute == "/dashboard"

\* navigate('/dashboard'): the component is unmounted and its state cells are
\* discarded; nothing is done about a recorder or a stream.
goHome ==
  /\ mounted
  /\ hasSession
  /\ ~isSubmitting
  /\ page' = DashboardRoute
  /\ hidden' = FALSE
  /\ tabSwitchCount' = 0
  /\ hideEvents' = 0
  /\ toasts' = NoToasts
  /\ currentQuestion' = 0
  /\ answers' = <<>>
  /\ evaluations' = <<>>
  /\ isSubmitting' = FALSE
  /\ codeAnswer' = ""
  /\ judgeResult' = ""
  /\ ttsEnabled' = TRUE
  /\ isRecording' = FALSE
  /\ mediaRecorder' = 0
  /\ UNCHANGED <<limits, permVars, fnVars, speechQueue, failureToast, sessionData, tasks, audioStreamRef,
                 recorders, micPending, outVars>>

\* ------------------------------------------------- upload and permissions
\* the cells of the interview page when a navigation replaces it: discarded
InterviewUnmounts ==
  /\ hidden' = FALSE
  /\ tabSwitchCount' = 0
  /\ hideEvents' = 0
  /\ toasts' = NoToasts
  /\ currentQuestion' = 0
  /\ answers' = <<>>
  /\ evaluations' = <<>>
  /\ isSubmitting' = FALSE
  /\ codeAnswer' = ""
  /\ judgeResult' = ""
  /\ ttsEnabled' = TRUE
  /\ isRecording' = FALSE
  /\ mediaRecorder' = 0

\* replies of POST /api/upload-resume: rejected, answered without a session
\* id, or answered with a session id and the generated questions
UploadResponses ==
  {[ok |-> FALSE, session_id |-> FALSE, questions |-> <<>>],
   [ok |-> TRUE, session_id |-> FALSE, questions |-> <<>>]} \cup
  {[ok |-> TRUE, session_id |-> TRUE, questions |-> qs] :
     qs \in UNION {[1..n -> QuestionTexts] : n \in 0..MaxQuestions}}

\* onDrop with an accepted file: handleUpload up to its fetch
handleUpload ==
  /\ page = UploadRoute
  /\ InFlight("upload") < limits.uploads
  /\ tasks' = Put(tasks, OpTask("upload"))
  /\ UNCHANGED <<limits, permVars, fnVars, cueVars, codeVars, failureToast,
                 sessionData, page, monitorVars, flowVars, recVars, outVars>>

\* the rest of handleUpload: with a session id the record is stored and the
\* permissions page is shown; otherwise only the notification
UploadResponse(t, resp) ==
  /\ BagIn(t, tasks)
  /\ t.pc = "upload"
  /\ tasks' = Take(tasks, t)
  /\ IF resp.ok /\ resp.session_id
       THEN /\ interview_session' = NewSession(resp.questions)
            /\ page' = PermissionsRoute
            /\ loading' = FALSE
            /\ IF mounted THEN InterviewUnmounts
                           ELSE UNCHANGED <<monitorVars, flowVars, judgeResult,
                                            ttsEnabled, isRecording, mediaRecorder>>
            /\ UNCHANGED failureToast
       ELSE /\ failureToast' = UploadFailed
            /\ UNCHANGED <<interview_session, page, loading, monitorVars, flowVars,
                           judgeResult, ttsEnabled, isRecording, mediaRecorder>>
  /\ UNCHANGED <<limits, fnVars, probe, monitoringWarned, speechQueue, sessionData,
                 audioStreamRef, recorders, micPending, outVars>>

\* "Continue to Permissions": the permissions page is shown; without a stored
\* record its mount effect sends the candidate back
openPermissions ==
  /\ page = UploadRoute
  /\ InFlight("upload") = 0
  /\ IF interview_session.exists
       THEN page' = PermissionsRoute /\ UNCHANGED failureToast
       ELSE page' = UploadRoute /\ failureToast' = NoSessionFound
  /\ UNCHANGED <<limits, permVars, fnVars, cueVars, codeVars, sessionData, tasks,
                 monitorVars, flowVars, recVars, outVars>>

\* the Back button of the permissions page
goBack ==
  /\ page = PermissionsRoute
  /\ ~loading
  /\ page' = UploadRoute
  /\ UNCHANGED <<limits, permVars, fnVars, cueVars, codeVars, failureToast,
                 sessionData, tasks, monitorVars, flowVars, recVars, outVars>>

\* the stored item disappears (site data cleared, storage evicted)
storageCleared ==
  /\ interview_session.exists
  /\ interview_session' = NoSession
  /\ UNCHANGED <<limits, loading, probe, monitoringWarned, fnVars, cueVars,
                 codeVars, failureToast, sessionData, page, tasks, monitorVars,
                 flowVars, recVars, outVars>>

\* a setter of the permissions page: no effect once the page is left
SetLoading(new) == IF page = PermissionsRoute THEN new ELSE loading

\* requestPermissions up to getUserMedia({ audio: true, video: true })
requestPermissions ==
  /\ page = PermissionsRoute
  /\ ~loading
  /\ probe.acquired + InFlight("devices") < limits.requests
  /\ loading' = TRUE
  /\ tasks' = Put(tasks, OpTask("devices"))
  /\ UNCHANGED <<limits, interview_session, probe, monitoringWarned, fnVars,
                 cueVars, codeVars, failureToast, sessionData, page, monitorVars,
                 flowVars, recVars, outVars>>

\* getUserMedia resolves: the tracks of the stream are stopped; with a stored
\* record the flags are set, the record is stored and start-monitoring is
\* requested; without one the catch clause raises the notification
DevicesGranted(t) ==
  /\ BagIn(t, tasks)
  /\ t.pc = "devices"
  /\ probe' = [acquired |-> probe.acquired + 1, stopped |-> probe.stopped + 1]
  /\ IF interview_session.exists
       THEN /\ interview_session' = Granted(interview_session)
            /\ tasks' = Put(Take(tasks, t), OpTask("permMonitor"))
            /\ UNCHANGED <<failureToast, loading>>
       ELSE /\ tasks' = Take(tasks, t)
            /\ failureToast' = PermissionsRequired
            /\ loading' = SetLoading(FALSE)
            /\ UNCHANGED interview_session
  /\ UNCHANGED <<limits, monitoringWarned, fnVars, cueVars, codeVars, sessionData,
                 page, monitorVars, flowVars, recVars, outVars>>

\* getUserMedia rejects: only the notification
DevicesDenied(t) ==
  /\ BagIn(t, tasks)
  /\ t.pc = "devices"
  /\ tasks' = Take(tasks, t)
  /\ failureToast' = PermissionsRequired
  /\ loading' = SetLoading(FALSE)
  /\ UNCHANGED <<limits, interview_session, probe, monitoringWarned, fnVars,
                 cueVars, codeVars, sessionData, page, monitorVars, flowVars,
                 recVars, outVars>>

\* the reply as if the failure of start-monitoring reached the outer catch
PermMonitorResponse_Fatal(t, resp) ==
  /\ BagIn(t, tasks)
  /\ t.pc = "permMonitor"
  /\ tasks' = IF resp = "ok" THEN Put(Take(tasks, t), OpTask("timer"))
                             ELSE Take(tasks, t)
  /\ failureToast' = IF resp = "ok" THEN failureToast ELSE PermissionsRequired
  /\ monitoringWarned' = monitoringWarned
  /\ loading' = SetLoading(FALSE)
  /\ UNCHANGED <<limits, interview_session, probe, fnVars, cueVars, codeVars,
                 sessionData, page, monitorVars, flowVars, recVars,
                 outVars>>

\* start-monitoring is answered or fails: a failure is only logged; either
\* way the navigation to the interview is scheduled and loading is cleared
PermMonitorResponse(t, resp) ==
  /\ BagIn(t, tasks)
  /\ t.pc = "permMonitor"
  /\ tasks' = Put(Take(tasks, t), OpTask("timer"))
  /\ monitoringWarned' = (monitoringWarned \/ resp # "ok")
  /\ loading' = SetLoading(FALSE)
  /\ UNCHANGED <<limits, interview_session, probe, fnVars, cueVars, codeVars,
                 failureToast, sessionData, page, monitorVars, flowVars, recVars,
                 outVars>>

\* setTimeout(() => navigate('/interview'), 600) fires.  The interview page
\* mounts and loads the stored record, or null without one.  If the interview
\* page is already shown nothing changes.
timerFires(t) ==
  /\ BagIn(t, tasks)
  /\ t.pc = "timer"
  /\ tasks' = Take(tasks, t)
  /\ IF mounted
       THEN UNCHANGED <<page, sessionData, speechQueue, loading>>
       ELSE /\ page' = InterviewRoute
            /\ sessionData' = Load(interview_session)
            /\ speechQueue' = IF Load(interview_session).questions # <<>>
                                THEN <<0>> ELSE <<>>
            /\ loading' = FALSE
  /\ UNCHANGED <<limits, interview_session, probe, monitoringWarned, fnVars,
                 ttsEnabled, codeVars, failureToast, monitorVars, flowVars,
                 recVars, outVars>>

\* The effect keyed on sessionData: without a session the notification is
\* raised and navigate("/resume-upload") replaces the page, whose cells are
\* discarded.
noSessionEffect ==
  /\ mounted
  /\ ~hasSession
  /\ failureToast' = NoInterviewSession
  /\ page' = UploadRoute
  /\ sessionData' = [questions |-> <<>>]
  /\ InterviewUnmounts
  /\ UNCHANGED <<limits, permVars, fnVars, speechQueue, tasks, audioStreamRef,
                 recorders, micPending, outVars>>

Next ==
  \/ handleVisibilityChange
  \/ setCodeAnswer
  \/ submitCodeAnswer
  \/ skipQuestion
  \/ finishInterview
  \/ startRecording
  \/ \E c \in BagToSet(micPending) : getUserMediaGranted(c)
  \/ \E c \in BagToSet(micPending) : getUserMediaDenied(c)
  \/ stopRecording
  \/ \E r \in DOMAIN recorders : \E size \in BlobSizes : onstop(r, size)
  \/ \E t \in BagToSet(tasks) : \E resp \in SubmitResponses : SubmitResponse(t, resp)
  \/ \E t \in BagToSet(tasks) : \E resp \in ReportResponses : ReportResponse(t, resp)

NextText ==
  \/ Next
  \/ submitTextAnswer

\* from the upload of the resume to the interview page, and on that page the
\* monitoring request and the skipping of questions
NextFlow ==
  \/ handleUpload
  \/ \E t \in BagToSet(tasks) : \E resp \in UploadResponses : UploadResponse(t, resp)
  \/ openPermissions
  \/ goBack
  \/ storageCleared
  \/ requestPermissions
  \/ \E t \in BagToSet(tasks) : DevicesGranted(t)
  \/ \E t \in BagToSet(tasks) : DevicesDenied(t)
  \/ \E t \in BagToSet(tasks) : \E resp \in ReportResponses : PermMonitorResponse(t, resp)
  \/ \E t \in BagToSet(tasks) : timerFires(t)
  \/ noSessionEffect
  \/ startMonitoring
  \/ \E t \in BagToSet(tasks) : \E resp \in ReportResponses : MonitorResponse(t, resp)
  \/ skipQuestion
  \/ \E t \in BagToSet(tasks) : \E resp \in SubmitResponses : SubmitResponse(t, resp)
  \/ \E t \in BagToSet(tasks) : \E resp \in ReportResponses : ReportResponse(t, resp)

\* calls of the pure functions
NextFn ==
  \/ callLanguageId
  \/ callDetectLanguage
  \/ callIsProgrammingQuestion
  \/ nextCall

\* the page with its read-aloud switch and the speech the browser performs
NextCue ==
  \/ Next
  \/ setTtsEnabled
  \/ utteranceEnds

\* every operation of the page, the controls that leave it and every outcome
\* of its collaborators
NextOps ==
  \/ NextText
  \/ \E c \in BagToSet(micPending) : getUserMediaGrantedRecorderThrows(c)
  \/ runCode
  \/ \E t \in BagToSet(tasks) : \E reply \in JudgeReplies : RunResponse(t, reply)
  \/ startMonitoring
  \/ \E t \in BagToSet(tasks) : \E resp \in ReportResponses : MonitorResponse(t, resp)
  \/ goHome

\* the page opened with or without a session to load
NextNull ==
  \/ NextOps
  \/ noSessionEffect

\* What the browser guarantees: a pending getUserMedia settles, the events of a
\* stopped recorder are delivered, and every request is answered or fails,
\* whichever handler (of recorder r, or of a control: r = 0) waits for it.
Settles ==
  /\ WF_vars(\E c \in BagToSet(micPending) :
               \/ getUserMediaGranted(c)
               \/ getUserMediaDenied(c)
               \/ getUserMediaGrantedRecorderThrows(c))
  /\ \A r \in 0..OpsRecordings :
       /\ WF_vars(\E size \in BlobSizes : onstop(r, size))
       /\ WF_vars(\E t \in BagToSet(tasks) : \E resp \in SubmitResponses :
                    t.rec = r /\ SubmitResponse(t, resp))
       /\ WF_vars(\E t \in BagToSet(tasks) : \E resp \in ReportResponses :
                    t.rec = r /\ ReportResponse(t, resp))
  /\ WF_vars(\E t \in BagToSet(tasks) : \E reply \in JudgeReplies :
               RunResponse(t, reply))
  /\ WF_vars(\E t \in BagToSet(tasks) : \E resp \in ReportResponses :
               MonitorResponse(t, resp))

Spec == Init /\ [][Next]_vars

SpecText == Init /\ [][NextText]_vars

SpecRace == InitRace /\ [][Next]_vars

SpecOps == InitOps /\ [][NextOps]_vars

SpecCue == InitCue /\ [][NextCue]_vars

SpecFn == InitFn /\ [][NextFn]_vars

SpecFlow == InitFlow /\ [][NextFlow]_vars

SpecLive == InitOps /\ [][NextOps]_vars /\ Settles

SpecNull == InitNull /\ [][NextNull]_vars

\* ======================================================================
\* Claims
\* ======================================================================

\* C1: however often and from whichever trigger finalization is invoked for
\* one session, exactly one report-generation request is issued and the
\* session enters its terminal phase exactly once.
C1_FinalizedOnce == reportRequests <= 1 /\ navigations <= 1

\* C2: in every reachable state the current question index is at most the
\* number of questions, and no step of the mounted page decreases it.
C2_IndexWithinQuestions ==
  /\ [](currentQuestion <= total)
  /\ [][mounted' => currentQuestion' >= currentQuestion]_vars

\* C3: no question index ever has more than one answer recorded for it.
C3_OneAnswerPerIndex ==
  \A i, j \in DOMAIN answers : i # j => answers[i].q # answers[j].q

\* C4: a skip whose backend call fails, in whichever way, still appends the
\* answer "SKIPPED" with a zero-score evaluation and moves on: to the next
\* question, or to finalization when the skipped question is the last.
C4_SkipAlwaysAdvances ==
  [][\A t \in BagToSet(tasks) : \A resp \in SubmitResponses \ {"ok_eval"} :
       (mounted /\ t.type = "skip" /\ SubmitResponse(t, resp))
         => /\ answers' = Append(answers, [q |-> t.k, content |-> "SKIPPED"])
            /\ evaluations' = Append(evaluations, [q |-> t.k, score |-> "zero"])
            /\ \/ currentQuestion' = currentQuestion + 1
               \/ reportRequests' = reportRequests + 1]_vars

\* C5: once the monitor has started finalization (third strike), whether the
\* report is in flight, has succeeded or has failed, no further answer
\* submission sends a request.
C5_NoSubmissionAfterFinalizing ==
  [][toasts.terminated > 0
       => \A t \in BagToSet(tasks') :
            t.pc = "submit" => CopiesIn(t, tasks') <= CopiesIn(t, tasks)]_vars

\* C6: the strike count starts at 0, grows by exactly 1 on each visibility
\* change that leaves the page hidden, is unchanged by one that leaves it
\* visible, and always equals the number of visible -> hidden transitions
\* observed.
C6_StrikeCountIsHideCount ==
  /\ tabSwitchCount = 0
  /\ [](tabSwitchCount = hideEvents)
  /\ [][mounted' => tabSwitchCount' =
                      tabSwitchCount + (IF ~hidden /\ hidden' THEN 1 ELSE 0)]_vars

C6_Witness == mounted /\ tabSwitchCount = 2 /\ ~hidden

\* C7: the first warning fires exactly when the count becomes 1, the final
\* warning exactly when it becomes 2, and the monitor calls finalization once
\* for every strike from the third on and never below 3.
C7_NoticesFollowCount ==
  /\ toasts.warning1 = (IF tabSwitchCount >= 1 THEN 1 ELSE 0)
  /\ toasts.warning2 = (IF tabSwitchCount >= 2 THEN 1 ELSE 0)
  /\ toasts.terminated = (IF tabSwitchCount >= 3 THEN tabSwitchCount - 2 ELSE 0)

C7_Witness == mounted /\ tabSwitchCount >= 3 /\ toasts.terminated >= 1

\* C8: a voice, code or text submission that fails (transport error, non-2xx,
\* unparsable body, 2xx without evaluation) appends nothing, leaves the index
\* unchanged and clears the submitting flag, so the question can be submitted
\* again.
C8_FailedSubmissionChangesNothing ==
  [][\A t \in BagToSet(tasks) : \A resp \in SubmitResponses \ {"ok_eval"} :
       (mounted /\ t.type \in {"voice", "code", "text"} /\ SubmitResponse(t, resp))
         => /\ answers' = answers
            /\ evaluations' = evaluations
            /\ currentQuestion' = currentQuestion
            /\ reportRequests' = reportRequests
            /\ isSubmitting' = FALSE]_vars

\* a recording was turned into an artifact and submitted, the reply was
\* handled, and nothing was appended: the submission failed
C8_Witness ==
  /\ mounted
  /\ answers = <<>>
  /\ ~isSubmitting
  /\ tasks = EmptyBag
  /\ \E r \in DOMAIN recorders : recorders[r] = Released(TRUE)

\* C9: a successful submission appends exactly one answer and one evaluation,
\* then advances the index by exactly 1 if questions remain after the one it
\* answers; if that one was the last it leaves the index unchanged and calls
\* finalization.
C9_SuccessAppendsAndAdvances ==
  [][\A t \in BagToSet(tasks) :
       (mounted /\ SubmitResponse(t, "ok_eval"))
         => /\ Len(answers') = Len(answers) + 1
            /\ Len(evaluations') = Len(evaluations) + 1
            /\ IF t.k + 1 < total
                 THEN /\ currentQuestion' = currentQuestion + 1
                      /\ reportRequests' = reportRequests
                 ELSE /\ currentQuestion' = currentQuestion
                      /\ reportRequests' = reportRequests + 1]_vars

\* a submission advanced the index and a later one, for the last question,
\* is waiting for the report it asked for
C9_Witness ==
  /\ mounted
  /\ currentQuestion = 1
  /\ Len(answers) = 2
  /\ \E t \in BagToSet(tasks) : t.pc = "report" /\ t.type \in SubmitTypes

\* C10: when finalization succeeds the stored bundle holds the questions, the
\* report reference and exactly the answers and evaluations recorded in the
\* session at that moment, those of the triggering submission included.
C10_BundleHoldsSessionAnswers ==
  [][(mounted /\ InterviewResults' # InterviewResults)
       => /\ InterviewResults'.questions = sessionData.questions
          /\ InterviewResults'.report_url
          /\ InterviewResults'.answers = answers
          /\ InterviewResults'.evaluations = evaluations]_vars

C12_NoReportAfterFailedReport ==
  [][(mounted /\ failureToast = ReportFailed) => reportRequests' = reportRequests]_vars

\* some microphone stream has tracks that were not stopped
LiveStream == \E r \in DOMAIN recorders : recorders[r].live

\* a stream was acquired and the recorder on it could not be created or started
OrphanStream ==
  \E r \in DOMAIN recorders : recorders[r].state = "failed" /\ recorders[r].live

\* C13: every stream startRecording acquired is eventually released on every
\* exit path: once the page is left (Home, or finalization navigating away) no
\* stream stays live for ever, and neither does a stream whose recorder failed
\* to be created or started.
C13_StreamReleasedOnEveryExit ==
  /\ (~mounted) ~> ~LiveStream
  /\ OrphanStream ~> ~OrphanStream

\* recorder r was stopped and its stop event is still to be handled
Stopped(r) == r \in DOMAIN recorders /\ recorders[r].state = "stopping"

\* the tracks of recorder r are stopped and the stream and recorder references
\* are null
Freed(r) ==
  /\ r \in DOMAIN recorders
  /\ ~recorders[r].live
  /\ audioStreamRef = 0
  /\ mediaRecorder = 0

\* C14: a stopped recording always ends with the microphone released (tracks
\* stopped, stream and recorder references cleared), with or without chunks
\* and whether the audio submission, and the report it may start, succeeds or
\* fails.
C14_StoppedRecordingIsReleased ==
  \A r \in 1..OpsRecordings : Stopped(r) ~> Freed(r)

\* the audio of a stopped recording was submitted, the submission failed and
\* the microphone is released
C14_Witness ==
  /\ mounted
  /\ failureToast = SubmissionFailed
  /\ tasks = EmptyBag
  /\ \E r \in DOMAIN recorders : recorders[r] = Released(TRUE) /\ Freed(r)

\* C15: a recording cycle whose flush delivers a non-empty blob produces one
\* artifact and one audio submission; one whose flush delivers nothing
\* produces no artifact and no submission and leaves answers, evaluations and
\* index as they are.  No recorder ever has two submissions.
C15_OneArtifactPerCycle ==
  /\ [](\A t, u \in BagToSet(tasks) :
          t.rec # 0 => /\ t.rec \in DOMAIN recorders
                       /\ recorders[t.rec].artifact
                       /\ CopiesIn(t, tasks) = 1
                       /\ (u.rec = t.rec => u = t))
  /\ [][\A r \in DOMAIN recorders : \A size \in BlobSizes :
          onstop(r, size)
            => IF size > 0
                 THEN /\ ~recorders[r].artifact
                      /\ recorders'[r].artifact
                      /\ tasks' = Put(tasks, SubmitTask("voice", recorders[r].k,
                                       recorders[r].ans, recorders[r].evs, r))
                 ELSE /\ ~recorders'[r].artifact
                      /\ tasks' = tasks
                      /\ answers' = answers
                      /\ evaluations' = evaluations
                      /\ currentQuestion' = currentQuestion]_vars

\* a second recording is running while the artifact of the first, stopped
\* one is being submitted
C15_Witness ==
  /\ mounted
  /\ \E r \in DOMAIN recorders :
       /\ recorders[r].artifact
       /\ \E t \in BagToSet(tasks) : t.rec = r /\ t.pc = "submit"
  /\ \E r \in DOMAIN recorders : recorders[r].state = "recording"

\* C16: when microphone access is denied, startRecording raises the
\* "Recording failed" notification and changes nothing else: the recording
\* flag, the recorder, the stream, answers, evaluations and index are as
\* before, so a recorder that was idle stays idle.
C16_DenialLeavesRecorderIdle ==
  [][\A c \in BagToSet(micPending) :
       getUserMediaDenied(c)
         => /\ failureToast' = RecordingFailed
            /\ UNCHANGED <<isRecording, mediaRecorder, audioStreamRef, recorders,
                           answers, evaluations, currentQuestion, tasks>>
            /\ recorders = <<>>
                 => ~isRecording' /\ mediaRecorder' = 0 /\ audioStreamRef' = 0]_vars

\* access was denied and nothing is recording or held
C16_Witness ==
  /\ mounted
  /\ failureToast = RecordingFailed
  /\ recorders = <<>>
  /\ micPending = EmptyBag
  /\ ~isRecording
  /\ answers = <<>>

\* C17: at most one request to /api/submit-answer is outstanding at any time,
\* and, already in a run where no collaborator has failed, evaluations are
\* appended in strictly increasing question-index order.
C17_SubmissionsSerialized ==
  /\ SubmitsInFlight <= 1
  /\ failureToast = NoFailure
       => \A i, j \in DOMAIN evaluations :
            i < j => evaluations[i].q < evaluations[j].q

\* C18: answers and evaluations have the same length, and the k-th entry of
\* each belongs to the k-th question.
C18_EntriesAlignedWithQuestions ==
  /\ Len(answers) = Len(evaluations)
  /\ \A i \in DOMAIN answers : answers[i].q = i - 1
  /\ \A i \in DOMAIN evaluations : evaluations[i].q = i - 1

\* the step leaves the session in progress on the same question: no report
\* request, no navigation, index, answers and evaluations as before
StaysInProgress ==
  /\ reportRequests' = reportRequests
  /\ \A u \in BagToSet(tasks') :
       u.pc = "report" => CopiesIn(u, tasks') <= CopiesIn(u, tasks)
  /\ page' = page
  /\ currentQuestion' = currentQuestion
  /\ answers' = answers
  /\ evaluations' = evaluations

\* C19: a failure of microphone acquisition, of a voice, code or text
\* submission, of code execution or of start-monitoring never starts
\* finalization: the session stays in progress on the same question, and after
\* a failed submission the controls are enabled again.
C19_FailuresAreNotFatal ==
  [][/\ \A c \in BagToSet(micPending) :
          (getUserMediaDenied(c) \/ getUserMediaGrantedRecorderThrows(c))
            => StaysInProgress
     /\ \A t \in BagToSet(tasks) :
          /\ \A resp \in SubmitResponses \ {"ok_eval"} :
               (t.type \in {"voice", "code", "text"} /\ SubmitResponse(t, resp))
                 => StaysInProgress /\ ~isSubmitting'
          /\ \A reply \in JudgeReplies : RunResponse(t, reply) => StaysInProgress
          /\ MonitorResponse(t, "fail") => StaysInProgress]_vars

\* on a coding question the run of the code was rejected by Judge0 and the
\* submission of the code failed; the session is still on that question
C19_Witness ==
  /\ mounted
  /\ judgeResult = JudgePanel(Rejected)
  /\ failureToast = SubmitFailed
  /\ ~isSubmitting
  /\ reportRequests = 0
  /\ answers = <<>>

\* the handler that was waiting as task t has run to its end
Completes(t) ==
  /\ CopiesIn(t, tasks') = CopiesIn(t, tasks) - 1
  /\ BagCardinality(tasks') = BagCardinality(tasks) - 1

Recording == {r \in DOMAIN recorders : recorders[r].state = "recording"}

\* C28: at most one microphone acquisition or recording is under way at any
\* time, and a recorder that is recording is the one the page holds in state,
\* so that Stop Recording can stop it.
C28_OneStreamOneRecorder ==
  /\ BagCardinality(micPending) + Cardinality(Recording) <= 1
  /\ mounted => \A r \in Recording : mediaRecorder = r

\* C29: every request to /api/submit-answer carries the index that is current
\* when it is sent.
C29_RequestCarriesCurrentIndex ==
  [][\A t \in BagToSet(tasks') :
       (t.pc = "submit" /\ CopiesIn(t, tasks') > CopiesIn(t, tasks))
         => t.k = currentQuestion]_vars

\* C30: on the interview page, with a non-empty question list, the current
\* index designates an existing question.
C30_IndexDesignatesQuestion ==
  (mounted /\ total > 0) => currentQuestion < total

\* C22: a reply of the sandbox is shown as exactly one of three outcomes:
\* runtime error when stderr is populated, otherwise compile error when
\* compile_output is populated, otherwise the output (possibly empty); none of
\* the three is treated as a failure of the call.
C22_ThreeExclusiveOutcomes ==
  [][\A t \in BagToSet(tasks) : \A reply \in JudgeReplies :
       (mounted /\ reply.ok /\ RunResponse(t, reply))
         => /\ judgeResult' = (IF reply.stderr THEN "Error"
                                ELSE IF reply.compile_output THEN "Compile Error"
                                ELSE IF reply.stdout THEN "Output"
                                ELSE "No output")
            /\ judgeResult' # "Judge0 error"
            /\ failureToast' = failureToast]_vars

\* a run was answered and the panel shows a runtime error
C22_Witness ==
  /\ mounted
  /\ judgeResult = "Error"
  /\ codeAnswer # ""
  /\ InFlight("run") = 0

\* C25: runCode sends one request and never another one for the same click;
\* a rejected request only puts the error text in the panel; whatever the
\* reply, index, answers, evaluations and the submitting flag are unchanged.
C25_RunTouchesOnlyThePanel ==
  [][/\ runCode
          => /\ tasks' = Put(tasks, OpTask("run"))
             /\ UNCHANGED <<currentQuestion, answers, evaluations, isSubmitting>>
     /\ \A t \in BagToSet(tasks) : \A reply \in JudgeReplies :
          RunResponse(t, reply)
            => /\ Completes(t)
               /\ UNCHANGED <<currentQuestion, answers, evaluations, isSubmitting,
                              failureToast, page, reportRequests>>
               /\ (mounted /\ ~reply.ok) => judgeResult' = "Judge0 error"]_vars

\* the sandbox rejected a run: the error text is in the panel, the draft is
\* kept and nothing else has happened in the session
C25_Witness ==
  /\ mounted
  /\ judgeResult = "Judge0 error"
  /\ codeAnswer # ""
  /\ tasks = EmptyBag
  /\ failureToast = NoFailure
  /\ answers = <<>>
  /\ ~isSubmitting

\* C21: at most one cue is in flight; when the current question changes on
\* the page, no cue of another question stays in flight; a cue is started
\* only with read-aloud enabled; Start Recording cancels the cue in flight.
C21_CueFollowsQuestion ==
  /\ [](Len(speechQueue) <= 1)
  /\ [][(mounted /\ page' = page /\ currentQuestion' # currentQuestion)
          => \A i \in DOMAIN speechQueue' : speechQueue'[i] = currentQuestion']_vars
  /\ [][(speechQueue' # <<>> /\ speechQueue' # speechQueue) => ttsEnabled']_vars
  /\ [][startRecording => speechQueue' = <<>>]_vars

\* C23: the language identifier sent to the sandbox is 71 for python, 54 for
\* cpp, 62 for java, 63 for javascript and the fallback 71 for every other
\* language name.
C23_LanguageIdIsFixed ==
  fnOutput.language_id # 0
    => fnOutput.language_id =
         (CASE fnInput.language = "python" -> 71
            [] fnInput.language = "cpp" -> 54
            [] fnInput.language = "java" -> 62
            [] fnInput.language = "javascript" -> 63
            [] OTHER -> 71)

\* the identifier of a language name the map does not hold was asked for
C23_Witness ==
  /\ fnInput.language = "ruby"
  /\ fnOutput.language_id = FallbackId

NavigationScheduled ==
  CopiesIn(OpTask("timer"), tasks') = CopiesIn(OpTask("timer"), tasks) + 1

\* the step schedules no navigation and shows no other page
NoNavigation ==
  /\ CopiesIn(OpTask("timer"), tasks') = CopiesIn(OpTask("timer"), tasks)
  /\ CopiesIn(OpTask("permMonitor"), tasks') = CopiesIn(OpTask("permMonitor"), tasks)
  /\ page' = page

\* C26: a failed start-monitoring request is not fatal.  On the interview
\* page it starts no finalization and leaves page, index, answers and
\* evaluations as they are.  On the permissions page the record was stored
\* with the permissions granted before the request was sent, the failure does
\* not touch it and raises no notification, and the navigation to the
\* interview is scheduled and shows the interview page when it fires.
C26_MonitoringFailureIsNotFatal ==
  [][\A t \in BagToSet(tasks) :
       /\ MonitorResponse(t, "fail") => StaysInProgress
       /\ (DevicesGranted(t) /\ interview_session.exists)
            => /\ interview_session'.permissions_granted
               /\ CopiesIn(OpTask("permMonitor"), tasks') > 0
       /\ PermMonitorResponse(t, "fail")
            => /\ interview_session' = interview_session
               /\ failureToast' = failureToast
               /\ NavigationScheduled
       /\ (timerFires(t) /\ interview_session.exists) => page' = InterviewRoute]_vars

\* start-monitoring failed on the permissions page and again on the interview
\* page, where the session is in progress with the permissions stored
C26_Witness ==
  /\ mounted
  /\ monitoringWarned
  /\ failureToast = MonitoringFailed
  /\ interview_session.permissions_granted
  /\ reportRequests = 0
  /\ total > 0

\* C27: the upload page stores the record with both permission flags false;
\* the flags become true only in a step in which a device stream was
\* obtained, and then both do; a denied request, and a granted one that finds
\* no record, leave the stored record as it is and schedule no navigation; the
\* tracks of every stream that was obtained are stopped.
C27_FlagsFollowDeviceAccess ==
  /\ [][\A t \in BagToSet(tasks) : \A resp \in UploadResponses :
          UploadResponse(t, resp)
            => IF resp.ok /\ resp.session_id
                 THEN /\ interview_session'.exists
                      /\ ~interview_session'.mic
                      /\ ~interview_session'.camera
                      /\ ~interview_session'.permissions_granted
                 ELSE interview_session' = interview_session]_vars
  /\ [][(interview_session' # interview_session /\ interview_session'.exists
            /\ (\/ interview_session'.mic
                \/ interview_session'.camera
                \/ interview_session'.permissions_granted))
          => /\ probe'.acquired = probe.acquired + 1
             /\ interview_session'.mic
             /\ interview_session'.camera
             /\ interview_session'.permissions_granted]_vars
  /\ [][\A t \in BagToSet(tasks) :
          (DevicesDenied(t) \/ (DevicesGranted(t) /\ ~interview_session.exists))
            => /\ interview_session' = interview_session
               /\ NoNavigation
               /\ failureToast' = PermissionsRequired]_vars
  /\ [](probe.stopped = probe.acquired)

\* access was granted but the record had disappeared: the stream was stopped,
\* nothing is stored and the candidate is still on the permissions page
C27_Witness ==
  /\ page = PermissionsRoute
  /\ probe.acquired = 1
  /\ probe.stopped = 1
  /\ ~interview_session.exists
  /\ failureToast = PermissionsRequired
  /\ tasks = EmptyBag
  /\ ~loading

\* C33: a focus loss that takes the strike count to 1 or 2 changes nothing
\* but the count and the warning shown: index, answers, evaluations, the
\* recording state and the handlers in flight are as before, and no request
\* is sent.
C33_EarlyStrikesOnlyCount ==
  [][(handleVisibilityChange /\ hidden' /\ tabSwitchCount' < TerminateAt)
       => /\ tabSwitchCount' = tabSwitchCount + 1
          /\ UNCHANGED <<currentQuestion, answers, evaluations, isSubmitting,
                         codeAnswer, isRecording, mediaRecorder, audioStreamRef,
                         recorders, micPending, tasks, reportRequests,
                         navigations, InterviewResults, page>>]_vars

\* the second strike arrived while a recording was running and a submission
\* was in flight; no report was asked for
C33_Witness ==
  /\ mounted
  /\ hidden
  /\ tabSwitchCount = 2
  /\ SubmitsInFlight = 1
  /\ reportRequests = 0
  /\ toasts.terminated = 0

\* C32: the code draft and the run result are cleared when the current
\* question changes, and a step that does not change the question and is
\* neither an edit nor a run, in particular the read-aloud switch, leaves
\* them as they are.
C32_DraftClearedOnlyOnQuestionChange ==
  /\ [][(mounted /\ page' = page /\ currentQuestion' # currentQuestion)
          => codeAnswer' = "" /\ judgeResult' = ""]_vars
  /\ [][setTtsEnabled => UNCHANGED <<codeAnswer, judgeResult>>]_vars

\* C35: the language preselected for a question is the one its text names:
\* python for python, cpp for c++ or cpp, java for java, javascript for
\* javascript or js, and python when it names none of them.
C35_PreselectedLanguageIsNamed ==
  (fnOutput.language # "")
    => LET names == {Lower(fnInput.text[i]) : i \in DOMAIN fnInput.text} IN
       /\ "python" \in names => fnOutput.language = "python"
       /\ (names \cap {"python", "java", "javascript", "js"} = {}
             /\ names \cap {"c++", "cpp"} # {}) => fnOutput.language = "cpp"
       /\ (names \cap {"python", "c++", "cpp", "javascript", "js"} = {}
             /\ "java" \in names) => fnOutput.language = "java"
       /\ (names \cap {"python", "c++", "cpp", "java"} = {}
             /\ names \cap {"javascript", "js"} # {})
            => fnOutput.language = "javascript"
       /\ names \cap {"python", "c++", "cpp", "java", "javascript", "js"} = {} => fnOutput.language = "python"
\* C34: When no session record can be loaded (absent or unparsable) the
\* interview page holds no session, every operation of the page is a no-op
\* (no request, no microphone request, no recorder, no report, no answer, no
\* evaluation, no move of the question index, no flag raised), and the only
\* page the candidate is taken to is the resume upload page.
C34_NoSessionNothingHappens ==
  /\ []((mounted /\ sessionData = Load(interview_session)
             /\ sessionData = NullSession)
          => /\ tasks = EmptyBag
             /\ micPending = EmptyBag
             /\ recorders = <<>>
             /\ reportRequests = 0
             /\ navigations = 0
             /\ InterviewResults = NoBundle
             /\ flowVars = <<0, <<>>, <<>>, FALSE, "">>
             /\ judgeResult = ""
             /\ ~isRecording
             /\ mediaRecorder = 0
             /\ audioStreamRef = 0)
  /\ [][(mounted /\ sessionData = NullSession /\ page' # page)
          => page' = UploadRoute /\ failureToast' = NoInterviewSession]_vars
  /\ [][(mounted /\ sessionData = NullSession)
          => UNCHANGED <<tasks, flowVars, recVars, outVars>>]_vars

C34_Witness ==
  /\ page = UploadRoute
  /\ failureToast = NoInterviewSession
  /\ interview_session = Unparsable
  /\ hideEvents = 0
  /\ tasks = EmptyBag
  /\ reportRequests = 0

\* C31: After report generation succeeds the candidate ends on the results
\* page and stays there: the path finalization navigates to renders the
\* results page, not the catch-all NotFound, and the mount effect of the page
\* shown leaves the candidate on that path.
C31_EndsOnResultsPage ==
  (navigations > 0 /\ InterviewResults # NoBundle)
    => /\ Element(page) = "InterviewResults"
       /\ ResultsEffect(page, NoLocationState) = page

====
